---- MODULE Spec2Model ----
(***************************************************************************)
(* A model of fixie_data.paths: the per-user path registry, the merge of   *)
(* pending path files into it (resolve_pending_paths), the query layer     *)
(* built on it (listpaths, info, fetch, delete) and the garbage collector  *)
(* (gc), run by concurrent request workers over one shared file store.     *)
(*                                                                         *)
(* The store is the directory $FIXIE_PATHS_DIR (one <user>.json registry   *)
(* per user, one <user>-<jobid>-pending-path.json per pending record, one  *)
(* <user>.json.lock per held lock) and the artifact files the entries      *)
(* reference.                                                              *)
(***************************************************************************)
EXTENDS Integers, Sequences, FiniteSets, TLC

(***************************************************************************)
(* Bounds and the values the environment draws its inputs from.            *)
(***************************************************************************)
\* number of jobs that ever register an artifact file
MaxJobs == 1

\* number of requests the workers ever take
MaxReqs == 2

\* number of artifact files of the tests' registry (_init_user_paths)
FixtureFiles == 3

\* the request workers
Procs == {"w1", "w2"}

\* user names; "al" is a proper prefix of "alx"
Users == {"al", "alx"}

\* path names, those of the tests' registry
Paths == {"/as", "/you", "/wish"}

\* the paths jobs register: '/you', held for no time and a path of the tests'
\* registry too, and '/hey', held for ever and in no registry yet
JobPaths == {"/you", "/hey"}

\* the holding time of '/wish' in the tests' registry, in seconds
Hold42 == 42

\* the instant at which the tests' registry is written: time.time() in
\* _init_user_paths, the 'created' of '/as' and '/you'
FixtureNow == 1000

\* the 'created' of '/wish' in the tests' registry: 1.0
WishCreated == 1

\* the later instant at which the clock is read: time.time() and st_ctime
TimePoints == {FixtureNow + 1000}

\* job ids, which name the artifact files
Files == 1 .. (FixtureFiles + MaxJobs)

(***************************************************************************)
(* Names as character sequences, and fnmatch on them.                      *)
(***************************************************************************)
Chars(s) ==
  CASE s = "al"  -> <<"a", "l">>
    [] s = "alx" -> <<"a", "l", "x">>
    [] s = "1"   -> <<"1">>
    [] s = "2"   -> <<"2">>
    [] s = "3"   -> <<"3">>
    [] s = "4"   -> <<"4">>
    [] s = "5"   -> <<"5">>
    [] s = "6"   -> <<"6">>
    [] s = "-pending-path.json" ->
         <<"-", "p", "e", "n", "d", "i", "n", "g", "-", "p", "a", "t", "h",
           ".", "j", "s", "o", "n">>
    [] s = "/as"   -> <<"/", "a", "s">>
    [] s = "/you"  -> <<"/", "y", "o", "u">>
    [] s = "/wish" -> <<"/", "w", "i", "s", "h">>
    [] s = "/hey"  -> <<"/", "h", "e", "y">>
    [] s = "*s*"   -> <<"*", "s", "*">>
    [] s = "*s"    -> <<"*", "s">>
    [] s = "*"     -> <<"*">>
    [] OTHER -> <<>>

\* the decimal name of a job id
Digits(n) ==
  CASE n = 1 -> "1" [] n = 2 -> "2" [] n = 3 -> "3" [] n = 4 -> "4"
    [] n = 5 -> "5" [] OTHER -> "6"

\* a match that stops where the pattern ends: the string need only begin
\* with a match
RECURSIVE FnMatchPrefix(_, _)
FnMatchPrefix(pat, s) ==
  IF pat = <<>> THEN TRUE
  ELSE IF Head(pat) = "*"
       THEN \/ FnMatchPrefix(Tail(pat), s)
            \/ (s # <<>> /\ FnMatchPrefix(pat, Tail(s)))
       ELSE /\ s # <<>>
            /\ (Head(pat) = "?" \/ Head(pat) = Head(s))
            /\ FnMatchPrefix(Tail(pat), Tail(s))

\* fnmatch.translate(pat) compiled and matched with re.match: '*' is any run
\* of characters, '?' is any one character, and the whole string must match
RECURSIVE FnMatch(_, _)
FnMatch(pat, s) ==
  IF pat = <<>> THEN s = <<>>
  ELSE IF Head(pat) = "*"
       THEN \/ FnMatch(Tail(pat), s)
            \/ (s # <<>> /\ FnMatch(pat, Tail(s)))
       ELSE /\ s # <<>>
            /\ (Head(pat) = "?" \/ Head(pat) = Head(s))
            /\ FnMatch(Tail(pat), Tail(s))

(***************************************************************************)
(* JSON values of the 'holding' field and Python floats.                   *)
(* A stored holding is a JSON literal: a number ("0.0", "42.0", the        *)
(* non-standard "Infinity") or a quoted string ('inf').  A float is finite *)
(* (v) or positive infinity.                                               *)
(***************************************************************************)
JNum(text) == [q |-> FALSE, s |-> text]
JStr(text) == [q |-> TRUE, s |-> text]

\* an entry written without a 'holding' field
JAbsent == [q |-> FALSE, s |-> ""]

\* info.get('holding', 'inf')
GetHolding(e) == IF e.holding = JAbsent THEN JStr("inf") ELSE e.holding

PosInf == [inf |-> TRUE, v |-> 0]
Fin(n) == [inf |-> FALSE, v |-> n]

\* float(x) of a parsed JSON value
PyFloat(j) ==
  CASE j.s = "inf"      -> PosInf
    [] j.s = "Infinity" -> PosInf
    [] j.s = "0.0"      -> Fin(0)
    [] j.s = "42.0"     -> Fin(Hold42)
    [] OTHER            -> PosInf

\* json.dump of a float
JsonFloat(x) ==
  IF x.inf THEN JNum("Infinity")
  ELSE IF x.v = 0 THEN JNum("0.0") ELSE JNum("42.0")

\* the holding the job of a path asks for (the tests' _init_user_paths and
\* _init_pending_paths)
HoldingOf(path) ==
  CASE path = "/as"  -> JStr("inf")
    [] path = "/hey" -> JStr("inf")
    [] path = "/you" -> JNum("0.0")
    [] OTHER         -> JNum("42.0")

\* x > y, the strict comparison
FloatGT(x, y) == (~y.inf) /\ x > y.v

\* x >= y on floats, for a finite x
FloatGE(x, y) == (~y.inf) /\ x >= y.v

(***************************************************************************)
(* Finite mappings (Python dicts keyed by path).                           *)
(***************************************************************************)
EmptyMap == <<>>

\* dict.update: the entries of b replace those of a with the same key
DictUpdate(a, b) ==
  [k \in (DOMAIN a) \cup (DOMAIN b) |-> IF k \in DOMAIN b THEN b[k] ELSE a[k]]

\* del d[k] for every k of ks
DictDel(d, ks) == [k \in (DOMAIN d) \ ks |-> d[k]]

(***************************************************************************)
(* Python's order on strings (by code point), and sorted().                *)
(***************************************************************************)
Ord(c) ==
  CASE c = "/" -> 47 [] c = "a" -> 97  [] c = "e" -> 101 [] c = "h" -> 104
    [] c = "i" -> 105
    [] c = "o" -> 111 [] c = "s" -> 115 [] c = "u" -> 117 [] c = "w" -> 119
    [] c = "y" -> 121 [] OTHER -> 0

RECURSIVE SeqLess(_, _)
SeqLess(a, b) ==
  IF b = <<>> THEN FALSE
  ELSE IF a = <<>> THEN TRUE
  ELSE IF Ord(Head(a)) # Ord(Head(b)) THEN Ord(Head(a)) < Ord(Head(b))
  ELSE SeqLess(Tail(a), Tail(b))

StrLess(s, t) == SeqLess(Chars(s), Chars(t))

\* sorted(keys): the ascending sequence of a set of strings
RECURSIVE Sorted(_)
Sorted(S) ==
  IF S = {} THEN <<>>
  ELSE LET m == CHOOSE x \in S : \A y \in S \ {x} : StrLess(x, y)
       IN  <<m>> \o Sorted(S \ {m})

(***************************************************************************)
(* The store and the workers.                                              *)
(***************************************************************************)
VARIABLES
  clock,      \* the wall clock
  nfiles,     \* artifact files created so far (job ids 1 .. nfiles)
  live,       \* the artifact files that exist
  frozen,     \* the artifact files os.remove cannot delete
  ctime,      \* st_ctime of each artifact file
  pending,    \* the pending path files: their parsed contents
  regexists,  \* the users whose registry file <user>.json exists
  regfile,    \* the contents of each registry file: path -> stored entry
  lock,       \* who holds <user>.json.lock ("" when the lock file is absent)
  served,     \* the number of requests taken so far
  proc        \* each worker's operation, arguments, position and locals

vars == <<clock, nfiles, live, frozen, ctime, pending, regexists, regfile,
          lock, served, proc>>

store == <<pending, regexists, regfile, live>>

NoLock == ""

\* status messages of paths.py
MsgNotLoaded   == "User paths file could not be loaded."
MsgInfoFound   == "Info found"
MsgNoPath      == "Path does not exist"
MsgNoFile      == "Path does not not have a file"
MsgNotAFile    == "Path file does not exist or is a directory"
MsgNotRemoved  == "Could not remove path"
MsgInconsistent == "Removed file but could not remove path entry, system is in inconsistent state."
MsgRemoved     == "File removed"
MsgResolved    == ""
MsgPathsListed == "Paths listed"
MsgFetched     == "File fetched"
MsgReadFailed  == "Failed to read file"
MsgOneFile     == "Exactly one file may be fetched!"
MsgNotCyclus   == "extension not recongnized as Cyclus output file."
MsgNoDb        == "Could not open database as HDF5 file."
MsgNoTable     == "Table could not be loaded from database"
MsgNoJson      == "Could not format table"
MsgBadFormat   == "Table format not valid"
MsgTableRead   == "Table read"
MsgFileNotFound == "File not found"

\* the selectors an info request carries: paths (a list) and pattern
InfoSelectors ==
  { [paths |-> <<>>, pattern |-> ""],
    [paths |-> <<"/you">>, pattern |-> ""],
    [paths |-> <<"/you", "/hey", "/wish">>, pattern |-> ""],
    [paths |-> <<>>, pattern |-> "*s*"],
    [paths |-> <<"/you">>, pattern |-> "*s*"] }

\* what a caller keeps of its previous call when that was a delete that
\* returned success: the call and its arguments
NoCall == [op |-> "none", user |-> "al", path |-> "/as"]

IdleProc ==
  [ op |-> "none", user |-> "al", path |-> "/as",
    prev |-> NoCall,     \* the caller's previous call
    sel |-> [paths |-> <<>>, pattern |-> ""],
    pc |-> "idle",
    files |-> {},        \* resolve_pending_paths: the glob's result
    newp |-> EmptyMap,   \* resolve_pending_paths: new_paths
    paths |-> EmptyMap,  \* the loaded (then merged) user paths
    loaded |-> FALSE,    \* whether _load_user_paths returned a mapping
    fname |-> 0,         \* the filename _ensure_file returned
    url |-> FALSE,       \* fetch: whether a URL is asked for, not the bytes
    file |-> <<>>,       \* GET /fetch: the values of the 'file' argument
    dumped |-> "no",     \* _dump_user_paths: "no" (not called), "ok", "fail"
    ok |-> FALSE, msg |-> "", out |-> <<>>,   \* the returned tuple
    now |-> 0, todo |-> {}, cur |-> "al", gcmsg |-> {},    \* gc's locals
    keys |-> {},         \* gc: the paths past their holding time, to look at
    key |-> "",          \* gc: the path whose file is about to be removed
    del |-> {},          \* gc: paths_to_del
    fmt |-> "" ]         \* table: the format asked for

\* the name of a pending path file (test_paths.py: _init_pending_paths)
PendingName(r) ==
  Chars(r.user) \o <<"-">> \o Chars(Digits(r.file)) \o Chars("-pending-path.json")

\* the pattern resolve_pending_paths globs for
PendingPattern(user) == Chars(user) \o <<"*">> \o Chars("-pending-path.json")

\* glob.glob(pattern) over the pending path files
Glob(user, files) == {r \in files : FnMatch(PendingPattern(user), PendingName(r))}

\* the pending path files written for a user
PendingOf(user, files) == {r \in files : r.user = user}

\* new_paths of resolve_pending_paths: one entry per pending file, keyed by
\* its path, holding made a float, created stamped from the artifact
NewPath(r) ==
  [path |-> r.path, file |-> r.file, user |-> r.user,
   holding |-> PyFloat(r.holding), created |-> ctime[r.file]]

\* the loop `new_paths[new_path['path']] = new_path` keeps, for every path,
\* the file the glob listed last: `last` holds one file per path
LastListed(files) ==
  {S \in SUBSET files :
     \A r \in files : Cardinality({q \in S : q.path = r.path}) = 1}

NewPaths(last) ==
  [k \in {r.path : r \in last} |-> NewPath(CHOOSE r \in last : r.path = k)]

\* a load that hands the stored entry back as it was parsed
LoadEntryRaw(e) == e

\* _load_user_paths: the stored mapping with every holding made a float
LoadEntry(e) == [e EXCEPT !.holding = PyFloat(GetHolding(e))]
LoadPaths(stored) == [k \in DOMAIN stored |-> LoadEntry(stored[k])]

\* json.dump of the in-memory mapping
DumpEntry(e) == [e EXCEPT !.holding = JsonFloat(e.holding)]
DumpPaths(paths) == [k \in DOMAIN paths |-> DumpEntry(paths[k])]

Init ==
  /\ clock = 0
  /\ nfiles = 0
  /\ live = {}
  /\ frozen = {}
  /\ ctime = [f \in Files |-> 0]
  /\ pending = {}
  /\ regexists = {}
  /\ regfile = [u \in Users |-> EmptyMap]
  /\ lock = [u \in Users |-> NoLock]
  /\ served = 0
  /\ proc = [p \in Procs |-> IdleProc]

(***************************************************************************)
(* The environment: jobs that register artifacts, and the clock.           *)
(***************************************************************************)
\* no worker is handing its result back
Quiet == \A p \in Procs : proc[p].pc \notin {"done", "fault"}

\* a job of `user` writes its artifact file and then its pending path file
Register(user, path, cap) ==
  /\ Quiet
  /\ nfiles < cap
  /\ nfiles' = nfiles + 1
  /\ live' = live \cup {nfiles + 1}
  /\ frozen' = frozen
  /\ ctime' = [ctime EXCEPT ![nfiles + 1] = clock]
  /\ pending' = pending \cup
       {[user |-> user, path |-> path, file |-> nfiles + 1,
         holding |-> HoldingOf(path)]}
  /\ UNCHANGED <<clock, regexists, regfile, lock, served, proc>>

Tick(t) ==
  /\ Quiet
  /\ t > clock
  /\ clock' = t
  /\ UNCHANGED <<nfiles, live, frozen, ctime, pending, regexists, regfile,
                 lock, served, proc>>

(***************************************************************************)
(* A worker takes a request.                                               *)
(***************************************************************************)
\* worker p is at one of the places pcs, and may take its next step
At(p, pcs) == Quiet /\ proc[p].pc \in pcs

Free(p) == At(p, {"idle"})

Put(p, r) == proc' = [proc EXCEPT ![p] = r]

\* the request is over: the tuple was returned (pc "done") or the exception
\* left the handler (pc "fault"), and the worker is free again
Returned(me) ==
  IF me.pc = "done" /\ me.ok /\ me.op = "delete"
  THEN [op |-> me.op, user |-> me.user, path |-> me.path]
  ELSE NoCall

Finish(p) ==
  /\ proc[p].pc \in {"done", "fault"}
  /\ Put(p, [IdleProc EXCEPT !.prev = Returned(proc[p])])
  /\ UNCHANGED <<clock, nfiles, frozen, ctime, pending, regexists, regfile,
                 live, lock, served>>

\* what no step of a request changes
EnvSame == UNCHANGED <<clock, nfiles, frozen, ctime, served>>

\* worker p takes a request: r is its operation and arguments
Take(p, r) ==
  /\ Free(p)
  /\ served < MaxReqs
  /\ served' = served + 1
  /\ Put(p, [r EXCEPT !.prev = proc[p].prev])
  /\ UNCHANGED <<clock, nfiles, frozen, ctime, store, lock>>

\* resolve_pending_paths(user), called directly
StartResolve(p, user) ==
  Take(p, [IdleProc EXCEPT !.op = "resolve", !.user = user, !.pc = "glob"])

\* info(user, paths, pattern)
StartInfo(p, user, sel) ==
  Take(p, [IdleProc EXCEPT !.op = "info", !.user = user, !.sel = sel,
                             !.pc = "glob"])

\* delete(user, path)
StartDelete(p, user, path) ==
  Take(p, [IdleProc EXCEPT !.op = "delete", !.user = user, !.path = path,
                             !.pc = "glob"])

(***************************************************************************)
(* The lock manager: flock(user_path_file, **kwargs) of the fixie package, *)
(* used as `with flock(...) as lockfd`.  The lock is exclusive; the scope  *)
(* is entered with a descriptor, or with 0 when the lock was not got in    *)
(* time; leaving the scope releases the lock, however the scope is left.   *)
(***************************************************************************)
\* a scope exit that leaves the lock file behind
KeepLock(u) == lock' = lock

\* worker p gets the lock of u's registry file
Acquire(u, p) == lock[u] = NoLock /\ lock' = [lock EXCEPT ![u] = p]

\* the lock of u's registry file is held: flock gives up and yields 0
Busy(u) == lock[u] # NoLock

\* the scope that holds the lock of u's registry file is left
Release(u) == lock' = [lock EXCEPT ![u] = NoLock]

(***************************************************************************)
(* resolve_pending_paths, the first step of every query operation.         *)
(***************************************************************************)
\* files = glob.glob(pattern); with no file, go on to _load_user_paths
ResolveGlob(p) ==
  LET me == proc[p]
      found == Glob(me.user, pending)
  IN  /\ At(p, {"glob"})
      /\ Put(p, [me EXCEPT !.files = found,
                           !.pc = IF found = {} THEN "load" ELSE "read"])
      /\ EnvSame /\ UNCHANGED <<store, lock>>

\* the loop over files: open and parse each, float(holding), os.stat(file).
\* open() of a file removed since the glob, and os.stat() of an artifact that
\* is gone, raise.
ResolveRead(p) ==
  LET me == proc[p]
  IN  /\ At(p, {"read"})
      /\ IF me.files \subseteq pending /\ \A r \in me.files : r.file \in live
         THEN \E last \in LastListed(me.files) :
                Put(p, [me EXCEPT !.newp = NewPaths(last), !.pc = "load"])
         ELSE Put(p, [me EXCEPT !.pc = "fault"])
      /\ EnvSame /\ UNCHANGED <<store, lock>>

\* _load_user_paths: flock(user_path_file) yields a descriptor
LoadLock(p) ==
  LET me == proc[p]
  IN  /\ At(p, {"load"})
      /\ Acquire(me.user, p)
      /\ Put(p, [me EXCEPT !.pc = "loadrd"])
      /\ EnvSame /\ UNCHANGED store

\* The content of a registry file whose writing stopped part-way, after
\* open(user_path_file, 'w') emptied it and before json.dump wrote its last
\* character: the empty text or a proper prefix of the document.  None of
\* them is a JSON document, and one value stands for them all.
Torn == [k \in {"{"} |-> ""]

\* json.load(f) of user's registry file returns a mapping
Readable(user) == regfile[user] # Torn

\* a load that answers a lock it did not get with the empty mapping
LoadTimeoutEmpty(p) ==
  LET me == proc[p]
  IN  /\ At(p, {"load"})
      /\ Busy(me.user)
      /\ Put(p, [me EXCEPT !.paths = EmptyMap, !.loaded = TRUE, !.pc = "post"])
      /\ EnvSame /\ UNCHANGED <<store, lock>>

\* _load_user_paths: flock times out and yields 0; the load returns None, and
\* so does resolve_pending_paths
LoadTimeout(p) ==
  LET me == proc[p]
  IN  /\ At(p, {"load"})
      /\ Busy(me.user)
      /\ Put(p, [me EXCEPT !.loaded = FALSE, !.pc = "post"])
      /\ EnvSame /\ UNCHANGED <<store, lock>>

\* what resolve_pending_paths does with the loaded paths: returns them when
\* there are no pending files, else paths.update(new_paths)
Merged(paths, newp) == DictUpdate(paths, newp)

\* _load_user_paths under the lock: {} without a registry file, else the
\* stored mapping with every holding a float; the lock is released on return
LoadRead(p) ==
  LET me == proc[p]
      got == IF me.user \in regexists THEN LoadPaths(regfile[me.user])
             ELSE EmptyMap
  IN  /\ At(p, {"loadrd"})
      /\ Readable(me.user)
      /\ Release(me.user)
      /\ Put(p, IF me.files = {}
                THEN [me EXCEPT !.paths = got, !.loaded = TRUE, !.pc = "post"]
                ELSE [me EXCEPT !.paths = Merged(got, me.newp),
                                !.loaded = TRUE, !.pc = "dump"])
      /\ EnvSame /\ UNCHANGED store

\* _load_user_paths under the lock: json.load(f) raises on a registry file
\* that is no JSON document; the exception leaves the locked scope and the
\* call
LoadGarbled(p) ==
  LET me == proc[p]
  IN  /\ At(p, {"loadrd"})
      /\ ~Readable(me.user)
      /\ Release(me.user)
      /\ Put(p, [me EXCEPT !.pc = "fault"])
      /\ EnvSame /\ UNCHANGED store

\* delete's return after its _dump_user_paths
DeleteOutcome(status) ==
  IF status THEN [ok |-> TRUE, msg |-> MsgRemoved]
  ELSE [ok |-> FALSE, msg |-> MsgInconsistent]

\* the caller's next step once _dump_user_paths has returned `status`:
\* resolve_pending_paths ignores it and goes on to remove the pending files,
\* delete returns
AfterDump(me, status) ==
  IF me.pc \in {"dump", "dumpwr"}
  THEN [me EXCEPT !.dumped = IF status THEN "ok" ELSE "fail", !.pc = "rm"]
  ELSE [me EXCEPT !.dumped = IF status THEN "ok" ELSE "fail", !.pc = "done",
                  !.ok = DeleteOutcome(status).ok,
                  !.msg = DeleteOutcome(status).msg]

\* _dump_user_paths (called by resolve_pending_paths at "dump", by delete at
\* "ddump"): flock yields a descriptor
DumpLock(p) ==
  LET me == proc[p]
  IN  /\ At(p, {"dump", "ddump"})
      /\ Acquire(me.user, p)
      /\ Put(p, [me EXCEPT !.pc = IF me.pc = "dump" THEN "dumpop" ELSE "ddumpop"])
      /\ EnvSame /\ UNCHANGED store

\* _dump_user_paths under the lock: open(user_path_file, 'w') creates the
\* file, or empties it; the lock is still held
DumpOpen(p) ==
  LET me == proc[p]
  IN  /\ At(p, {"dumpop", "ddumpop"})
      /\ regfile' = [regfile EXCEPT ![me.user] = Torn]
      /\ regexists' = regexists \cup {me.user}
      /\ Put(p, [me EXCEPT !.pc = IF me.pc = "dumpop" THEN "dumpwr" ELSE "ddumpwr"])
      /\ EnvSame /\ UNCHANGED <<pending, live, lock>>

\* a dump that proceeds to its write though flock yielded 0
DumpUnlocked(p) ==
  LET me == proc[p]
  IN  /\ At(p, {"dump", "ddump"})
      /\ Busy(me.user)
      /\ regfile' = [regfile EXCEPT ![me.user] = DumpPaths(me.paths)]
      /\ regexists' = regexists \cup {me.user}
      /\ Put(p, AfterDump(me, TRUE))
      /\ EnvSame /\ UNCHANGED <<pending, live, lock>>

\* _dump_user_paths: flock times out and yields 0; the dump returns False
DumpTimeout(p) ==
  LET me == proc[p]
  IN  /\ At(p, {"dump", "ddump"})
      /\ Busy(me.user)
      /\ Put(p, AfterDump(me, FALSE))
      /\ EnvSame /\ UNCHANGED <<store, lock>>

\* _dump_user_paths under the lock: json.dump writes the mapping into the
\* opened file, the lock is released, True returned
DumpWrite(p) ==
  LET me == proc[p]
  IN  /\ At(p, {"dumpwr", "ddumpwr"})
      /\ regfile' = [regfile EXCEPT ![me.user] = DumpPaths(me.paths)]
      /\ Release(me.user)
      /\ Put(p, AfterDump(me, TRUE))
      /\ EnvSame /\ UNCHANGED <<pending, regexists, live>>

\* _dump_user_paths under the lock: open(user_path_file, 'w') raises (the
\* file cannot be written); the exception leaves the locked scope and the
\* call, the registry file is as it was
DumpFault(p) ==
  LET me == proc[p]
  IN  /\ At(p, {"dumpop", "ddumpop"})
      /\ Release(me.user)
      /\ Put(p, [me EXCEPT !.pc = "fault"])
      /\ EnvSame /\ UNCHANGED store

\* _dump_user_paths under the lock: open(user_path_file, 'w') has emptied the
\* file and json.dump stops before its last write (the write raises, or the
\* process is stopped); the lock is released and the call is over
DumpTorn(p) ==
  LET me == proc[p]
  IN  /\ At(p, {"dumpwr", "ddumpwr"})
      /\ Release(me.user)
      /\ Put(p, [me EXCEPT !.pc = "fault"])
      /\ EnvSame /\ UNCHANGED store

\* the loop os.remove(fname) over files; it raises at the first file that is
\* already gone, having removed those before it in the list
ResolveRemove(p) ==
  LET me == proc[p]
  IN  /\ At(p, {"rm"})
      /\ IF me.files \subseteq pending
         THEN /\ pending' = pending \ me.files
              /\ Put(p, [me EXCEPT !.pc = "post"])
         ELSE \E gone \in SUBSET (me.files \cap pending) :
                /\ pending' = pending \ gone
                /\ Put(p, [me EXCEPT !.pc = "fault"])
      /\ EnvSame /\ UNCHANGED <<regexists, regfile, live, lock>>

\* resolve_pending_paths called directly returns the paths, or None
ResolveReturn(p) ==
  LET me == proc[p]
  IN  /\ At(p, {"post"}) /\ me.op = "resolve"
      /\ Put(p, [me EXCEPT !.pc = "done", !.ok = me.loaded,
                           !.msg = MsgResolved])
      /\ EnvSame /\ UNCHANGED <<store, lock>>

(***************************************************************************)
(* info                                                                    *)
(***************************************************************************)
\* a selection that comes out in the opposite order of the list
RECURSIVE ByPathsReversed(_, _)
ByPathsReversed(userpaths, paths) ==
  IF paths = <<>> THEN <<>>
  ELSE ByPathsReversed(userpaths, Tail(paths))
         \o (IF Head(paths) \in DOMAIN userpaths THEN <<userpaths[Head(paths)]>>
             ELSE <<>>)

\* [userpaths[path] for path in paths if path in userpaths]
RECURSIVE ByPaths(_, _)
ByPaths(userpaths, paths) ==
  IF paths = <<>> THEN <<>>
  ELSE (IF Head(paths) \in DOMAIN userpaths THEN <<userpaths[Head(paths)]>>
        ELSE <<>>) \o ByPaths(userpaths, Tail(paths))

\* the values whose key is in keys, sorted by path
SortedInfos(userpaths, keys) ==
  LET order == Sorted(keys)
  IN  [i \in 1 .. Len(order) |-> userpaths[order[i]]]

\* the keys the compiled pattern matches
Matching(userpaths, pattern) ==
  {k \in DOMAIN userpaths : FnMatch(Chars(pattern), Chars(k))}

\* info's result for the resolved userpaths: (infos, status, message)
InfoResult(userpaths, sel) ==
  IF sel.paths # <<>>
  THEN [out |-> ByPaths(userpaths, sel.paths), ok |-> TRUE, msg |-> MsgInfoFound]
  ELSE IF sel.pattern # ""
  THEN [out |-> SortedInfos(userpaths, Matching(userpaths, sel.pattern)),
        ok |-> TRUE, msg |-> MsgInfoFound]
  ELSE [out |-> SortedInfos(userpaths, DOMAIN userpaths),
        ok |-> TRUE, msg |-> MsgInfoFound]

InfoReturn(p) ==
  LET me == proc[p]
      r == InfoResult(me.paths, me.sel)
  IN  /\ At(p, {"post"}) /\ me.op = "info"
      /\ Put(p, IF me.loaded
                THEN [me EXCEPT !.pc = "done", !.ok = r.ok, !.msg = r.msg,
                                !.out = r.out]
                ELSE [me EXCEPT !.pc = "done", !.ok = FALSE,
                                !.msg = MsgNotLoaded])
      /\ EnvSame /\ UNCHANGED <<store, lock>>

(***************************************************************************)
(* listpaths                                                               *)
(***************************************************************************)
\* listpaths(user, pattern)
StartListPaths(p, user, pattern) ==
  Take(p, [IdleProc EXCEPT !.op = "listpaths", !.user = user,
                             !.sel = [paths |-> <<>>, pattern |-> pattern],
                             !.pc = "glob"])

\* [p for p in paths if r.match(p) is not None], r the compiled translation
\* of the glob pattern
RECURSIVE Filtered(_, _)
Filtered(paths, pattern) ==
  IF paths = <<>> THEN <<>>
  ELSE (IF FnMatch(Chars(pattern), Chars(Head(paths))) THEN <<Head(paths)>>
        ELSE <<>>) \o Filtered(Tail(paths), pattern)

\* listpaths' result for the resolved infos: (paths, status, message)
ListPathsResult(infos, pattern) ==
  LET paths == Sorted(DOMAIN infos)
  IN  [out |-> IF pattern # "" THEN Filtered(paths, pattern) ELSE paths,
       ok |-> TRUE, msg |-> MsgPathsListed]

ListPathsReturn(p) ==
  LET me == proc[p]
      r == ListPathsResult(me.paths, me.sel.pattern)
  IN  /\ At(p, {"post"}) /\ me.op = "listpaths"
      /\ Put(p, IF me.loaded
                THEN [me EXCEPT !.pc = "done", !.ok = r.ok, !.msg = r.msg,
                                !.out = r.out]
                ELSE [me EXCEPT !.pc = "done", !.ok = FALSE,
                                !.msg = MsgNotLoaded])
      /\ EnvSame /\ UNCHANGED <<store, lock>>

(***************************************************************************)
(* _ensure_file, and delete's use of it                                    *)
(***************************************************************************)
\* _ensure_file after resolve_pending_paths: the failure message, or "" when
\* the path has an entry whose file is a regular file
EnsureFile(me) ==
  IF ~me.loaded THEN MsgNotLoaded
  ELSE IF me.path \notin DOMAIN me.paths THEN MsgNoPath
  ELSE IF me.paths[me.path].file = 0 THEN MsgNoFile
  ELSE IF me.paths[me.path].file \notin live THEN MsgNotAFile
  ELSE ""

DeleteEnsure(p) ==
  LET me == proc[p]
  IN  /\ At(p, {"post"}) /\ me.op = "delete"
      /\ Put(p, IF EnsureFile(me) = ""
                THEN [me EXCEPT !.fname = me.paths[me.path].file,
                                !.pc = "unlink"]
                ELSE [me EXCEPT !.pc = "done", !.ok = FALSE,
                                !.msg = EnsureFile(me)])
      /\ EnvSame /\ UNCHANGED <<store, lock>>

(***************************************************************************)
(* fetch                                                                   *)
(***************************************************************************)
\* fetch(user, path, url)
StartFetch(p, user, path, url) ==
  Take(p, [IdleProc EXCEPT !.op = "fetch", !.user = user, !.path = path,
                             !.url = url, !.pc = "glob"])

\* _fetch_url(filename): the URL of the file, computed without opening it
FetchUrl(f) == [out |-> <<[url |-> TRUE, file |-> f]>>, msg |-> ""]

\* a _fetch_bytes that hands bytes back whether or not the file could be read
FetchBytesAnyway(f, files) == [out |-> <<[url |-> FALSE, file |-> f]>>, msg |-> ""]

\* _fetch_bytes(filename): the bytes of the file; an exception of open() or
\* read() is caught and becomes (None, message)
FetchBytes(f, files) ==
  IF f \in files THEN [out |-> <<[url |-> FALSE, file |-> f]>>, msg |-> ""]
  ELSE [out |-> <<>>, msg |-> MsgReadFailed]

\* fetch after _ensure_file: a failure returns (None, False, msg); else the
\* fetcher is chosen
FetchEnsure(p) ==
  LET me == proc[p]
  IN  /\ At(p, {"post"}) /\ me.op = "fetch"
      /\ Put(p, IF EnsureFile(me) = ""
                THEN [me EXCEPT !.fname = me.paths[me.path].file,
                                !.pc = "fetcher"]
                ELSE [me EXCEPT !.pc = "done", !.ok = FALSE,
                                !.msg = EnsureFile(me)])
      /\ EnvSame /\ UNCHANGED <<store, lock>>

\* url_or_file, msg = fetcher(filename); None is a failure
FetchReturn(p) ==
  LET me == proc[p]
      r == IF me.url THEN FetchUrl(me.fname) ELSE FetchBytes(me.fname, live)
  IN  /\ At(p, {"fetcher"})
      /\ Put(p, IF r.out = <<>>
                THEN [me EXCEPT !.pc = "done", !.ok = FALSE, !.msg = r.msg]
                ELSE [me EXCEPT !.pc = "done", !.ok = TRUE, !.msg = MsgFetched,
                                !.out = r.out])
      /\ EnvSame /\ UNCHANGED <<store, lock>>

(***************************************************************************)
(* table                                                                   *)
(***************************************************************************)
\* os.path.splitext(filename)[1] of the file of job f: the tests' registry
\* names '0.txt', '1.h5' and '2.txt', a later job writes a Cyclus database
Ext(f) == IF f \in {1, 3} THEN ".txt" ELSE ".h5"

\* table(user, name, path, format=fmt), with the handler's default format
\* or one that table does not know
StartTable(p, user, path, fmt) ==
  Take(p, [IdleProc EXCEPT !.op = "table", !.user = user, !.path = path,
                             !.fmt = fmt, !.pc = "glob"])

\* table after _ensure_file: a failure returns (None, False, msg)
TableEnsure(p) ==
  LET me == proc[p]
  IN  /\ At(p, {"post"}) /\ me.op = "table"
      /\ Put(p, IF EnsureFile(me) = ""
                THEN [me EXCEPT !.fname = me.paths[me.path].file,
                                !.pc = "opendb"]
                ELSE [me EXCEPT !.pc = "done", !.ok = FALSE,
                                !.msg = EnsureFile(me)])
      /\ EnvSame /\ UNCHANGED <<store, lock>>

\* what the Cyclus library may answer for a file with a database's extension:
\* it cannot open it, it cannot read the table, the table cannot be written
\* as JSON, or the table is read
FromDb(fmt) ==
  {[ok |-> FALSE, msg |-> MsgNoDb], [ok |-> FALSE, msg |-> MsgNoTable]}
    \cup (IF fmt = "json:dict"
          THEN {[ok |-> FALSE, msg |-> MsgNoJson], [ok |-> TRUE, msg |-> MsgTableRead]}
          ELSE {[ok |-> FALSE, msg |-> MsgBadFormat]})

\* _open_db(filename) by the file's extension, db.query and the formatting:
\* every failure is caught and returned as (None, False, msg)
TableRead(p) ==
  LET me == proc[p]
  IN  /\ At(p, {"opendb"})
      /\ \E r \in (IF Ext(me.fname) = ".h5" THEN FromDb(me.fmt)
                   ELSE {[ok |-> FALSE, msg |-> MsgNotCyclus]}) :
           Put(p, [me EXCEPT !.pc = "done", !.ok = r.ok, !.msg = r.msg,
                     !.out = IF r.ok THEN <<[url |-> FALSE, file |-> me.fname]>>
                             ELSE <<>>])
      /\ EnvSame /\ UNCHANGED <<store, lock>>

(***************************************************************************)
(* GET /fetch, and the file names behind it.  A file name is the sequence  *)
(* of its components; an absolute one begins with "/".                     *)
(***************************************************************************)
\* ENV['FIXIE_SIMS_DIR']
SimsDir == <<"/", "sims">>

\* the name of the file of job f: those of the tests' registry (sims +
\* '/0.txt', '/1.h5', '/2.txt'), and the Cyclus output of a later job
BaseName(f) ==
  CASE f = 1 -> "0.txt" [] f = 2 -> "1.h5" [] f = 3 -> "2.txt"
    [] f = 4 -> "3.h5" [] f = 5 -> "4.h5" [] OTHER -> "5.h5"

FileName(f) == SimsDir \o <<BaseName(f)>>

\* the directories of the host
Dirs == {<<"/">>, SimsDir, <<"/", "etc">>}

\* a file of the host that is no artifact
HostFiles == {<<"/", "etc", "passwd">>}

\* os.path.join(a, b): an absolute b discards a
Join(a, b) == IF b # <<>> /\ Head(b) = "/" THEN b ELSE a \o b

\* the directory above dir; the root is above itself
Parent(dir) == IF Len(dir) <= 1 THEN dir ELSE SubSeq(dir, 1, Len(dir) - 1)

\* the file system's walk from the directory cur along the components rest:
\* ".." goes up, a name goes down; <<>> when a component that is gone
\* through is no directory
RECURSIVE Walk(_, _)
Walk(cur, rest) ==
  IF rest = <<>> THEN cur
  ELSE IF cur \notin Dirs THEN <<>>
  ELSE IF Head(rest) = ".." THEN Walk(Parent(cur), Tail(rest))
  ELSE Walk(cur \o <<Head(rest)>>, Tail(rest))

\* the file an absolute name leads to
Resolve(name) == Walk(<<"/">>, Tail(name))

\* os.path.isfile(name)
IsFile(name, files) ==
  Resolve(name) \in HostFiles \cup {FileName(f) : f \in files}

\* the length of the longest common prefix of two names
RECURSIVE CommonLen(_, _)
CommonLen(a, b) ==
  IF a = <<>> \/ b = <<>> \/ Head(a) # Head(b) THEN 0
  ELSE 1 + CommonLen(Tail(a), Tail(b))

\* os.path.relpath(name, start), both absolute and normalised: one ".." for
\* every component of start past the common prefix, then the rest of name
RelPath(name, start) ==
  LET c == CommonLen(name, start)
  IN  [i \in 1 .. (Len(start) - c) |-> ".."] \o SubSeq(name, c + 1, Len(name))

\* urllib.parse.urlencode({'file': relname}): the value, with every "/"
\* written %2F; an absolute name begins with one
RECURSIVE Quote(_)
Quote(name) ==
  IF name = <<>> THEN <<>>
  ELSE IF Head(name) = "/" THEN <<"%2F">> \o Quote(Tail(name))
  ELSE IF Tail(name) = <<>> THEN name
  ELSE <<Head(name), "%2F">> \o Quote(Tail(name))

\* the text between the "/" of a value in which %2F is "/" again
RECURSIVE Unquote(_)
Unquote(text) ==
  IF text = <<>> THEN <<>>
  ELSE IF Head(text) = "%2F" THEN Unquote(Tail(text))
  ELSE <<Head(text)>> \o Unquote(Tail(text))

\* the request's argument as the handler reads it: the components of the
\* decoded value; a leading "/" makes the name absolute
Decode(text) ==
  IF text # <<>> /\ Head(text) = "%2F" THEN <<"/">> \o Unquote(text)
  ELSE Unquote(text)

\* the 'file' value of the URL _fetch_url(filename) returns
UrlFile(f) == Quote(RelPath(FileName(f), SimsDir))

\* the bytes of a file: an artifact holds its job's output, told by the job's
\* number; 0 stands for the bytes of a file that is no artifact
Content(name) ==
  IF \E f \in Files : FileName(f) = name
  THEN CHOOSE f \in Files : FileName(f) = name
  ELSE 0

\* the 'file' values of the requests: those of the URLs of _fetch_url, a
\* name that does not exist, names that leave the artifact directory, by
\* ".." and by being absolute, and one that leaves it and comes back
Locators ==
  {UrlFile(f) : f \in Files}
    \cup {Quote(n) : n \in {<<"9">>, <<"..", "etc", "passwd">>,
                            <<"/", "etc", "passwd">>,
                            <<"..", "sims", BaseName(1)>>}}

\* GET /fetch?file=...: the arguments hold any number of 'file' values; with
\* none the arguments have no key 'file'
StartGet(p, files) ==
  Take(p, [IdleProc EXCEPT !.op = "get", !.file = files, !.pc = "get"])

\* Fetch.get: self.request.arguments['file'] raises KeyError without a 'file'
\* value; one file exactly; its name is joined to the artifact directory;
\* what is not a file is answered 400, a file is written out whole
GetServe(p) ==
  LET me == proc[p]
      fname == Join(SimsDir, Decode(me.file[1]))
  IN  /\ At(p, {"get"})
      /\ Put(p, IF me.file = <<>>
                THEN [me EXCEPT !.pc = "fault"]
                ELSE IF Len(me.file) # 1
                THEN [me EXCEPT !.pc = "done", !.ok = FALSE, !.msg = MsgOneFile]
                ELSE IF ~IsFile(fname, live)
                THEN [me EXCEPT !.pc = "done", !.ok = FALSE,
                                !.msg = MsgFileNotFound]
                ELSE [me EXCEPT !.pc = "done", !.ok = TRUE,
                        !.out = <<[url |-> FALSE, file |-> Content(Resolve(fname))]>>])
      /\ EnvSame /\ UNCHANGED <<store, lock>>

(***************************************************************************)
(* delete                                                                  *)
(***************************************************************************)
\* whether os.remove(filename) succeeds
Removable(f) == f \in live /\ f \notin frozen

\* a delete that goes on to drop the entry whatever os.remove did
RemovedAnyway(me) ==
  [me EXCEPT !.paths = DictDel(me.paths, {me.path}), !.pc = "ddump"]

\* delete after a failed os.remove: it returns, leaving userpaths alone
AfterRemoveFailed(me) ==
  [me EXCEPT !.pc = "done", !.ok = FALSE, !.msg = MsgNotRemoved]

\* a delete that forgets `del userpaths[path]`
StillListed(paths, path) == paths

\* del userpaths[path]
Unlisted(paths, path) == DictDel(paths, {path})

\* os.remove(filename), then del userpaths[path]
DeleteUnlink(p) ==
  LET me == proc[p]
      f == me.fname
  IN  /\ At(p, {"unlink"})
      /\ IF Removable(f)
         THEN /\ live' = live \ {f}
              /\ Put(p, [me EXCEPT !.paths = Unlisted(me.paths, me.path),
                                   !.pc = "ddump"])
         ELSE /\ live' = live
              /\ Put(p, AfterRemoveFailed(me))
      /\ EnvSame /\ UNCHANGED <<pending, regexists, regfile, lock>>

(***************************************************************************)
(* gc                                                                      *)
(***************************************************************************)
\* a sweep that collects only what has no holding time at all
ZeroHolding(now, e) == FloatGE(0, PyFloat(e.holding))

\* age >= holding for a stored entry, holding made a float
Expired(now, e) == FloatGE(now - e.created, PyFloat(GetHolding(e)))

\* a gc that reports success whatever it met
GcAlwaysOk(gcmsg) == [ok |-> TRUE, msg |-> gcmsg]

\* gc's return value
GcOutcome(gcmsg) == [ok |-> gcmsg = {}, msg |-> gcmsg]

\* now = time.time(); the glob of *.json lists the registry files
StartGc(p) ==
  Take(p, [IdleProc EXCEPT !.op = "gc", !.now = clock, !.todo = regexists,
                             !.pc = "gcnext"])

\* the next registry file: flock yields a descriptor
GcLock(p, u) ==
  LET me == proc[p]
  IN  /\ At(p, {"gcnext"}) /\ u \in me.todo
      /\ Acquire(u, p)
      /\ Put(p, [me EXCEPT !.cur = u, !.pc = "gcsweep"])
      /\ EnvSame /\ UNCHANGED store

\* a gc that gives the whole sweep up at the first registry it cannot lock
GcAbort(p, u) ==
  LET me == proc[p]
  IN  /\ At(p, {"gcnext"}) /\ u \in me.todo
      /\ Busy(u)
      /\ Put(p, [me EXCEPT !.todo = {},
                           !.gcmsg = me.gcmsg \cup {[kind |-> "lock", what |-> u]}])
      /\ EnvSame /\ UNCHANGED <<store, lock>>

\* the next registry file: flock times out and yields 0; the file is skipped
GcSkip(p, u) ==
  LET me == proc[p]
  IN  /\ At(p, {"gcnext"}) /\ u \in me.todo
      /\ Busy(u)
      /\ Put(p, [me EXCEPT !.todo = me.todo \ {u},
                           !.gcmsg = me.gcmsg \cup {[kind |-> "lock", what |-> u]}])
      /\ EnvSame /\ UNCHANGED <<store, lock>>

\* under the lock: json.load of the raw registry; the loop will stop at the
\* entries with age >= holding, the others it passes without a call
GcLoad(p) ==
  LET me == proc[p]
      stored == regfile[me.cur]
  IN  /\ At(p, {"gcsweep"})
      /\ Readable(me.cur)
      /\ Put(p, [me EXCEPT !.paths = stored, !.del = {}, !.pc = "gcfile",
                           !.keys = {k \in DOMAIN stored : Expired(me.now, stored[k])}])
      /\ EnvSame /\ UNCHANGED <<store, lock>>

\* under the lock: json.load(f) raises on a registry file that is no JSON
\* document; the exception leaves the locked scope and gc
GcGarbled(p) ==
  LET me == proc[p]
  IN  /\ At(p, {"gcsweep"})
      /\ ~Readable(me.cur)
      /\ Release(me.cur)
      /\ Put(p, [me EXCEPT !.pc = "fault"])
      /\ EnvSame /\ UNCHANGED store

\* the loop reaches the entry of path k, past its holding time:
\* os.path.isfile(fname); without the file the entry is passed over.  The
\* registry of the model keeps no order, the loop takes the paths in any.
GcIsFile(p, k) ==
  LET me == proc[p]
  IN  /\ At(p, {"gcfile"}) /\ k \in me.keys
      /\ Put(p, IF me.paths[k].file \in live
                THEN [me EXCEPT !.keys = me.keys \ {k}, !.key = k, !.pc = "gcrm"]
                ELSE [me EXCEPT !.keys = me.keys \ {k}])
      /\ EnvSame /\ UNCHANGED <<store, lock>>

\* os.remove(fname): the path joins paths_to_del, or the exception is caught,
\* its message kept and the entry passed over
GcRemove(p) ==
  LET me == proc[p]
      f == me.paths[me.key].file
  IN  /\ At(p, {"gcrm"})
      /\ IF Removable(f)
         THEN /\ live' = live \ {f}
              /\ Put(p, [me EXCEPT !.del = me.del \cup {me.key}, !.pc = "gcfile"])
         ELSE /\ live' = live
              /\ Put(p, [me EXCEPT !.pc = "gcfile",
                           !.gcmsg = me.gcmsg \cup
                             {[kind |-> "remove", what |-> Digits(f)]}])
      /\ EnvSame /\ UNCHANGED <<pending, regexists, regfile, lock>>

\* the loop is over with paths to delete: open(user_path_file, 'w') empties
\* the registry file; the lock is still held
GcOpen(p) ==
  LET me == proc[p]
  IN  /\ At(p, {"gcfile"}) /\ me.keys = {} /\ me.del # {}
      /\ regfile' = [regfile EXCEPT ![me.cur] = Torn]
      /\ Put(p, [me EXCEPT !.pc = "gcwr"])
      /\ EnvSame /\ UNCHANGED <<pending, regexists, live, lock>>

\* the loop is over with paths_to_del empty and the file is left as it is,
\* or json.dump writes the loaded mapping without the paths to delete into
\* the opened file; the lock is released
GcRewrite(p) ==
  LET me == proc[p]
      u == me.cur
  IN  /\ \/ At(p, {"gcfile"}) /\ me.keys = {} /\ me.del = {} /\ regfile' = regfile
         \/ /\ At(p, {"gcwr"})
            /\ regfile' = [regfile EXCEPT ![u] = DictDel(me.paths, me.del)]
      /\ Release(u)
      /\ Put(p, [me EXCEPT !.todo = me.todo \ {u}, !.pc = "gcnext"])
      /\ EnvSame /\ UNCHANGED <<pending, regexists, live>>

\* the rewrite's open(user_path_file, 'w') raises (the file cannot be
\* written): the exception leaves the locked scope and gc, the artifacts are
\* removed and the registry file is as it was
GcFault(p) ==
  LET me == proc[p]
  IN  /\ At(p, {"gcfile"}) /\ me.keys = {} /\ me.del # {}
      /\ Release(me.cur)
      /\ Put(p, [me EXCEPT !.pc = "fault"])
      /\ EnvSame /\ UNCHANGED store

\* the rewrite of the registry file stops after open(user_path_file, 'w') and
\* before json.dump's last write
GcTorn(p) ==
  LET me == proc[p]
  IN  /\ At(p, {"gcwr"})
      /\ Release(me.cur)
      /\ Put(p, [me EXCEPT !.pc = "fault"])
      /\ EnvSame /\ UNCHANGED store

\* the steps of gc's sweep of one registry, under its lock
GcSweep(p) ==
  GcLoad(p) \/ (\E k \in Paths \cup JobPaths : GcIsFile(p, k)) \/ GcRemove(p)
    \/ GcOpen(p) \/ GcRewrite(p)

\* every registry file was visited: return (not msg, msg)
GcReturn(p) ==
  LET me == proc[p]
  IN  /\ At(p, {"gcnext"}) /\ me.todo = {}
      /\ Put(p, [me EXCEPT !.pc = "done", !.ok = GcOutcome(me.gcmsg).ok])
      /\ EnvSame /\ UNCHANGED <<store, lock>>

(***************************************************************************)
(* The system.                                                             *)
(***************************************************************************)
\* the steps of a request that meets no held lock
Run(p) ==
  \/ ResolveGlob(p) \/ ResolveRead(p)
  \/ LoadLock(p) \/ LoadRead(p)
  \/ DumpLock(p) \/ DumpOpen(p) \/ DumpWrite(p)
  \/ ResolveRemove(p) \/ ResolveReturn(p)
  \/ DeleteEnsure(p) \/ DeleteUnlink(p)
  \/ \E u \in Users : GcLock(p, u)
  \/ GcSweep(p) \/ GcReturn(p)

\* the steps a held lock makes possible: flock gives up
Contend(p) ==
  \/ LoadTimeout(p) \/ DumpTimeout(p)
  \/ \E u \in Users : GcSkip(p, u)

\* the requests that change the store, for the paths that jobs register
Start(p) ==
  \/ \E u \in Users : StartResolve(p, u)
  \/ \E u \in Users, path \in JobPaths : StartDelete(p, u, path)
  \/ StartGc(p)

\* every request, for every path of the tests' registry
StartAny(p) ==
  \/ \E u \in Users : StartResolve(p, u)
  \/ \E u \in Users, sel \in InfoSelectors : StartInfo(p, u, sel)
  \/ \E u \in Users, path \in Paths : StartDelete(p, u, path)
  \/ StartGc(p)

\* jobs register up to cap artifact files
Jobs(cap) == \E u \in Users, path \in JobPaths : Register(u, path, cap)

\* Workers serve requests at once over a store that starts empty; a result
\* is handed back before anything else happens.
Next ==
  Jobs(MaxJobs) \/ \E p \in Procs : Start(p) \/ Run(p) \/ Contend(p) \/ Finish(p)

Spec == Init /\ [][Next]_vars

\* The registry _init_user_paths writes for user "al".
FixtureEntry(path, file) ==
  [path |-> path, file |-> file, user |-> "al", holding |-> HoldingOf(path),
   created |-> IF path = "/wish" THEN WishCreated ELSE FixtureNow]

Fixture ==
  [k \in Paths |->
     FixtureEntry(k, CASE k = "/as" -> 1 [] k = "/you" -> 2 [] OTHER -> 3)]

\* The stores the tests set up: the registry file of _init_user_paths and
\* the artifact files a test writes after it: none (test_listpaths,
\* test_info), 0.txt (test_delete, test_fetch_bytes), 1.h5 (test_gc,
\* test_table), 2.txt (test_fetch_url), or all three (_write_simple_files);
\* and which of them the file system lets nobody remove.
InitTests ==
  /\ clock = FixtureNow
  /\ nfiles = FixtureFiles
  /\ live \in {{}, {1}, {2}, {3}, 1 .. FixtureFiles}
  /\ frozen \in {{}, live \cap {2}}
  /\ ctime = [f \in Files |-> FixtureNow]
  /\ pending = {}
  /\ regexists = {"al"}
  /\ regfile = [u \in Users |-> IF u = "al" THEN Fixture ELSE EmptyMap]
  /\ lock = [u \in Users |-> NoLock]
  /\ served = 0
  /\ proc = [p \in Procs |-> IdleProc]

\* no call is under way
Still == \A p \in Procs : proc[p].pc = "idle"

\* One caller makes one call after the other on the tests' store; between
\* the calls jobs register more files and time passes.
NextTests ==
  \/ Still /\ Jobs(FixtureFiles + MaxJobs)
  \/ Still /\ \E t \in TimePoints : Tick(t)
  \/ StartAny("w1") \/ Run("w1") \/ InfoReturn("w1") \/ Finish("w1")

SpecTests == InitTests /\ [][NextTests]_vars

\* the store of _write_simple_files: every registered artifact is written and
\* can be removed
InitFiles == InitTests /\ live = 1 .. FixtureFiles /\ frozen = {}

\* One caller makes one call after the other on the store with every
\* artifact written.
SpecFiles == InitFiles /\ [][NextTests]_vars

\* the patterns a listpaths request carries
ListPatterns == {"", "*s*", "*s"}

\* the steps of listpaths and fetch once resolve_pending_paths has returned
Query(p) == ListPathsReturn(p) \/ FetchEnsure(p) \/ FetchReturn(p)

\* every request of the service
StartCall(p) ==
  \/ StartAny(p)
  \/ \E u \in Users, pattern \in ListPatterns : StartListPaths(p, u, pattern)
  \/ \E u \in Users, path \in Paths, url \in BOOLEAN : StartFetch(p, u, path, url)
  \/ \E u \in Users, path \in Paths, fmt \in {"json:dict", "csv"} :
       StartTable(p, u, path, fmt)

\* User 'al' makes calls of resolve_pending_paths, info, delete, gc,
\* listpaths and fetch on the store with every artifact written and
\* removable, while a second worker resolves pending paths of either user and
\* sweeps; locks are contended, files vanish under the caller and a write of
\* the registry file may fail. Jobs of the second user register their files
\* at any time, also in the middle of a call.
NextBusy ==
  \/ Register("alx", "/hey", FixtureFiles + MaxJobs)
  \/ StartResolve("w1", "al") \/ StartGc("w1")
  \/ \E sel \in InfoSelectors : StartInfo("w1", "al", sel)
  \/ \E path \in Paths : StartDelete("w1", "al", path)
  \/ \E pattern \in ListPatterns : StartListPaths("w1", "al", pattern)
  \/ \E path \in Paths, url \in BOOLEAN : StartFetch("w1", "al", path, url)
  \/ (\E u \in Users : StartResolve("w2", u)) \/ StartGc("w2")
  \/ \E p \in Procs :
       \/ Run(p) \/ Contend(p) \/ InfoReturn(p) \/ Query(p)
       \/ DumpFault(p) \/ GcFault(p) \/ Finish(p)

SpecBusy == InitFiles /\ [][NextBusy]_vars

\* a registry written by hand for the second user: an entry without a holding
\* field and one whose holding is a numeric string, naming artifacts of the
\* tests' store
FixtureOther ==
  [k \in {"/as", "/wish"} |->
     [path |-> k, file |-> IF k = "/as" THEN 1 ELSE 3, user |-> "alx",
      holding |-> IF k = "/as" THEN JAbsent ELSE JStr("42.0"),
      created |-> FixtureNow]]

\* The tests' store with a registry file for every user.
InitSweep ==
  /\ clock = FixtureNow
  /\ nfiles = FixtureFiles
  /\ live = 1 .. FixtureFiles
  /\ frozen \in {{}, {2}}
  /\ ctime = [f \in Files |-> FixtureNow]
  /\ pending = {}
  /\ regexists = Users
  /\ regfile = [u \in Users |-> IF u = "al" THEN Fixture ELSE FixtureOther]
  /\ lock = [u \in Users |-> NoLock]
  /\ served = 0
  /\ proc = [p \in Procs |-> IdleProc]

\* the steps of gc, and those of resolve_pending_paths called directly
Sweeping(p) ==
  \/ \E u \in Users : GcLock(p, u)
  \/ \E u \in Users : GcSkip(p, u)
  \/ GcSweep(p) \/ GcReturn(p)

Resolving(p) ==
  \/ ResolveGlob(p) \/ ResolveRead(p)
  \/ LoadLock(p) \/ LoadTimeout(p) \/ LoadRead(p)
  \/ DumpLock(p) \/ DumpTimeout(p) \/ DumpOpen(p) \/ DumpWrite(p)
  \/ ResolveRemove(p) \/ ResolveReturn(p)

\* One worker sweeps while the other resolves pending paths.  A sweep that
\* has started goes on: the thread is scheduled, and flock returns within its
\* timeout whether or not it got the lock.
NextSweep ==
  \/ Register("alx", "/hey", FixtureFiles + MaxJobs)
  \/ StartGc("w1") \/ (\E u \in Users : StartResolve("w2", u))
  \/ \E p \in Procs : Sweeping(p) \/ Resolving(p) \/ Finish(p)

SpecSweep ==
  /\ InitSweep /\ [][NextSweep]_vars
  /\ \A p \in Procs : WF_vars(Sweeping(p)) /\ WF_vars(Finish(p))

\* The tests' store with a registry file for every user and every artifact
\* removable.
InitServe ==
  /\ clock = FixtureNow
  /\ nfiles = FixtureFiles
  /\ live = 1 .. FixtureFiles
  /\ frozen = {}
  /\ ctime = [f \in Files |-> FixtureNow]
  /\ pending = {}
  /\ regexists = Users
  /\ regfile = [u \in Users |-> IF u = "al" THEN Fixture ELSE FixtureOther]
  /\ lock = [u \in Users |-> NoLock]
  /\ served = 0
  /\ proc = [p \in Procs |-> IdleProc]

\* One caller makes every call of the service, one after the other; between
\* the calls jobs of both users register their files.
NextServe ==
  \/ Still /\ Jobs(FixtureFiles + MaxJobs)
  \/ StartCall("w1") \/ Run("w1") \/ InfoReturn("w1") \/ Query("w1")
  \/ TableEnsure("w1") \/ TableRead("w1") \/ Finish("w1")

SpecServe == InitServe /\ [][NextServe]_vars

\* The process serving worker p's call dies in resolve_pending_paths after
\* _dump_user_paths returned and before the loop of os.remove is over: the
\* files in `gone` were removed, at least one was not.  The worker stays
\* where it died, and its request does not count as served.
ResolveCrash(p) ==
  LET me == proc[p]
  IN  /\ At(p, {"rm"})
      /\ me.files \subseteq pending
      /\ \E gone \in (SUBSET me.files) \ {me.files} :
           pending' = pending \ gone
      /\ Put(p, [me EXCEPT !.pc = "crashed"])
      /\ served' = served - 1
      /\ UNCHANGED <<clock, nfiles, live, frozen, ctime, regexists, regfile,
                     lock>>

\* some resolve_pending_paths died between its dump and its last os.remove
Crashed == \E q \in Procs : proc[q].pc = "crashed"

\* A call that resolves pending paths is served and may die after its dump;
\* after that a second process serves resolve_pending_paths, delete and gc,
\* one call after the other.
NextCrash ==
  \/ Still /\ Jobs(FixtureFiles + MaxJobs)
  \/ \E u \in Users : StartResolve("w1", u)
  \/ ResolveCrash("w1")
  \/ Crashed /\ Start("w2")
  \/ \E p \in Procs : Run(p) \/ Finish(p)

SpecCrash == InitServe /\ [][NextCrash]_vars

\* One caller resolves, deletes and sweeps, one call after the other; a
\* write of a registry file may fail or stop part-way, and what it leaves is
\* read.
NextTorn ==
  \/ Still /\ Jobs(FixtureFiles + MaxJobs)
  \/ Start("w1") \/ Run("w1") \/ Finish("w1")
  \/ DumpFault("w1") \/ DumpTorn("w1") \/ GcFault("w1") \/ GcTorn("w1")
  \/ LoadGarbled("w1") \/ GcGarbled("w1")

SpecTorn == InitServe /\ [][NextTorn]_vars

\* One client makes every call of the service and every GET /fetch, one
\* after the other, while jobs register their files.
NextFetch ==
  \/ Still /\ Jobs(FixtureFiles + MaxJobs)
  \/ StartCall("w1")
  \/ \E files \in {<<l>> : l \in Locators} \cup {<<>>, <<UrlFile(1), UrlFile(2)>>} :
       StartGet("w1", files)
  \/ Run("w1") \/ InfoReturn("w1") \/ Query("w1")
  \/ TableEnsure("w1") \/ TableRead("w1") \/ GetServe("w1") \/ Finish("w1")

SpecFetch == InitServe /\ [][NextFetch]_vars

(***************************************************************************)
(* Properties.                                                             *)
(***************************************************************************)
\* worker p has loaded the registry of its user and has yet to dump it
Between(p) ==
  \/ proc[p].op = "resolve" /\ proc[p].pc \in {"dump"}
  \/ proc[p].op = "delete" /\ proc[p].loaded
       /\ proc[p].pc \in {"dump", "rm", "post", "unlink", "ddump"}

\* C2: operations on the same user exclude each other for their whole
\* read-modify-write: while a worker is between its load of a user's registry
\* and its own dump of it, no other operation writes that registry.
C2_NoWriteBetween ==
  [][\A p \in Procs :
       (Between(p) /\ proc'[p] = proc[p])
         => regfile'[proc[p].user] = regfile[proc[p].user]]_vars

\* C4: a resolve_pending_paths whose dump of the merged registry failed has
\* deleted no pending path file and returns the failure sentinel.
C4_FailedDumpAborts ==
  \A p \in Procs :
    (proc[p].op = "resolve" /\ proc[p].pc = "done" /\ proc[p].dumped = "fail")
      => (~proc[p].ok /\ proc[p].files \subseteq pending)

\* C5: info called with both a paths selector and a pattern selector returns
\* (None, False, message).
C5_BothSelectorsRejected ==
  \A p \in Procs :
    (proc[p].op = "info" /\ proc[p].pc = "done"
       /\ proc[p].sel.paths # <<>> /\ proc[p].sel.pattern # "")
      => (~proc[p].ok /\ proc[p].out = <<>>)

\* a successful delete of worker p has just returned
DeleteSucceeded(p) ==
  proc[p].op = "delete" /\ proc[p].pc = "done" /\ proc[p].ok

\* worker p's resolve_pending_paths has returned a mapping right after its
\* successful delete of the same user, and no pending path file it read
\* registers the deleted path anew
ResolvedAfterDelete(p) ==
  /\ proc[p].op = "resolve" /\ proc[p].pc = "done" /\ proc[p].ok
  /\ proc[p].prev.op = "delete" /\ proc[p].prev.user = proc[p].user
  /\ ~\E r \in proc[p].files : r.path = proc[p].prev.path

\* C6: after delete(user, path) returns success the artifact file is gone and
\* the registry has no entry for path, and the resolve_pending_paths(user)
\* that follows returns a mapping without path.
C6_DeletedStaysGone ==
  \A p \in Procs :
    /\ DeleteSucceeded(p)
         => (proc[p].fname \notin live
               /\ proc[p].path \notin DOMAIN regfile[proc[p].user])
    /\ ResolvedAfterDelete(p) => proc[p].prev.path \notin DOMAIN proc[p].paths

C6_Witness == \E p \in Procs : ResolvedAfterDelete(p)

\* delete's os.remove is about to fail for worker p
RemoveFails(p) == proc[p].pc = "unlink" /\ ~Removable(proc[p].fname)

\* C8: when delete's removal of the artifact file fails, delete returns
\* ok=False at once, without a dump: the registry file is what it was, and
\* the entry for the path is still in it, as it was loaded.
C8_FailedRemoveLeavesEntry ==
  [][\A p \in Procs :
       (RemoveFails(p) /\ proc'[p] # proc[p])
         => /\ proc'[p].pc = "done" /\ ~proc'[p].ok
            /\ regfile' = regfile /\ regexists' = regexists
            /\ proc[p].path \in DOMAIN regfile'[proc[p].user]
            /\ LoadEntry(regfile'[proc[p].user][proc[p].path])
                 = proc[p].paths[proc[p].path]]_vars

C8_Witness ==
  \E p \in Procs :
    /\ proc[p].op = "delete" /\ proc[p].pc = "done"
    /\ proc[p].msg = MsgNotRemoved
    /\ proc[p].fname \in live

\* gc was the first call on the tests' store, made `later` seconds after the
\* store was written, when every artifact could be removed, and it has
\* returned
GcReturnedAt(p, later) ==
  /\ proc[p].op = "gc" /\ proc[p].pc = "done" /\ served = 1
  /\ proc[p].now = FixtureNow + later /\ frozen = {}

\* C9 as stated: with /as (holding inf), /you (holding 0) and /wish
\* (holding 42), every one at least 1000 s old and backed by a file, gc
\* deletes the artifact and the entry of /you only, and reports success.
C9_OnlyYouCollected ==
  \A p \in Procs :
    GcReturnedAt(p, 1000)
      => /\ DOMAIN regfile["al"] = {"/as", "/wish"}
         /\ live \cap (1 .. FixtureFiles) = {1, 3}
         /\ proc[p].ok

\* C9 (amended): with /as (holding inf), /you (holding 0) and /wish
\* (holding 42), every one at least 1000 s old and backed by a file, gc
\* deletes the artifacts and the entries of /you and /wish, the entry and the
\* artifact of /as are still there, unchanged, and gc reports success.
C9_YouAndWishCollected ==
  \A p \in Procs :
    GcReturnedAt(p, 1000)
      => /\ DOMAIN regfile["al"] = {"/as"}
         /\ regfile["al"]["/as"] = Fixture["/as"]
         /\ live \cap (1 .. FixtureFiles) = {1}
         /\ proc[p].ok

C9_Witness == \E p \in Procs : GcReturnedAt(p, 1000)

\* C10: for the registry gc sweeps under its lock, an entry is removed if
\* and only if its age now - created is at least its holding time, its
\* artifact file exists and the file system lets the artifact be removed, and
\* then the artifact is gone; an entry with infinite holding is never
\* removed, and every entry that stays is unchanged and keeps its artifact.
\* Step by step: the entries gc looks at are those old enough; one whose file
\* is absent is passed over; one whose file is there joins the paths to
\* delete exactly when the removal succeeds; the rewrite drops the paths to
\* delete and nothing else.
C10_GcRemovesIff ==
  [][\A p \in Procs :
       LET me == proc[p]
           to == proc'[p]
       IN  /\ (me.pc = "gcsweep" /\ to.pc = "gcfile")
                => LET before == regfile[me.cur]
                   IN  /\ to.paths = before /\ to.del = {}
                       /\ \A k \in DOMAIN before :
                            LET holding == PyFloat(before[k].holding)
                            IN  k \in to.keys
                                  <=> /\ ~holding.inf
                                      /\ me.now - before[k].created >= holding.v
           /\ (me.pc = "gcfile" /\ to.pc = "gcrm")
                => /\ to.key \in me.keys /\ me.paths[to.key].file \in live
                   /\ to.del = me.del /\ live' = live /\ regfile' = regfile
           /\ (me.pc = "gcfile" /\ to.pc = "gcfile" /\ to # me)
                => /\ \A k \in me.keys \ to.keys : me.paths[k].file \notin live
                   /\ to.del = me.del /\ live' = live /\ regfile' = regfile
           /\ (me.pc = "gcrm" /\ to.pc = "gcfile")
                => LET f == me.paths[me.key].file
                   IN  /\ me.key \in to.del <=> (f \in live /\ f \notin frozen)
                       /\ to.del \subseteq me.del \cup {me.key}
                       /\ live' = IF me.key \in to.del THEN live \ {f} ELSE live
                       /\ regfile' = regfile
           /\ (me.pc \in {"gcfile", "gcwr"} /\ to.pc = "gcnext")
                => LET after == regfile'[me.cur]
                   IN  /\ DOMAIN after = DOMAIN me.paths \ me.del
                       /\ \A k \in DOMAIN after : after[k] = me.paths[k]
                       /\ live' = live]_vars

\* gc has swept both registries when al's /you was exactly as old as its
\* holding time and its artifact could not be removed, and alx's /wish was
\* younger than its holding time: gc tried /you and kept it with a message,
\* al's /wish is gone with its artifact, /as and alx's /wish stay
C10_Witness ==
  \E p \in Procs :
    /\ proc[p].op = "gc" /\ proc[p].pc = "done"
    /\ proc[p].now = Fixture["/you"].created /\ frozen = {2}
    /\ proc[p].now - FixtureOther["/wish"].created < Hold42
    /\ DOMAIN regfile["al"] = {"/as", "/you"}
    /\ "/wish" \in DOMAIN regfile["alx"]
    /\ live \cap (1 .. FixtureFiles) = {1, 2}
    /\ proc[p].gcmsg = {[kind |-> "remove", what |-> Digits(2)]}
    /\ ~proc[p].ok

\* the only two calls made are resolve_pending_paths calls of one user, by
\* workers p and q, both under way
TwoResolves(p, q) ==
  /\ p # q /\ served = 2
  /\ proc[p].op = "resolve" /\ proc[q].op = "resolve"
  /\ proc[q].user = proc[p].user

\* worker p's resolve_pending_paths has nothing left to do but return
Over(p) == proc[p].pc \in {"post", "done"}

\* C1: two concurrent resolve_pending_paths calls for the same user both
\* complete, neither ending in a fault, and once both are over and have a
\* mapping to return the user's registry contains the paths of the pending
\* path files they read: no merged path is lost, in every interleaving of
\* their steps.
C1_NoLostMerge ==
  \A p, q \in Procs :
    TwoResolves(p, q)
      => /\ proc[p].pc # "fault"
         /\ (Over(p) /\ Over(q) /\ proc[p].loaded /\ proc[q].loaded)
              => \A r \in proc[p].files :
                   r.path \in DOMAIN regfile[proc[p].user]

\* worker p's resolve_pending_paths(u) has read the registry R under the lock
\* and merges the records it read from the pending path files into it
ResolveLoads(p) ==
  proc[p].op = "resolve" /\ proc[p].pc = "loadrd" /\ proc'[p].pc = "dump"

\* worker p's resolve_pending_paths(u) is writing the merged registry into
\* the file it opened
ResolveDumps(p) ==
  proc[p].op = "resolve" /\ proc[p].pc = "dumpwr" /\ proc'[p].pc # "dumpwr"

\* C3: resolve_pending_paths(u), run without interference over the pending
\* path files P of u and the registry R, leaves a registry whose keys are
\* those of R and the paths of P, with P's entry for a path in both; when it
\* returns no file of P is left, the registry file exists and the mapping
\* returned is the stored registry.
C3_MergesPending ==
  /\ [][\A p \in Procs :
          LET u == proc[p].user
              P == PendingOf(u, proc[p].files)
          IN  /\ ResolveLoads(p)
                   => /\ DOMAIN proc'[p].paths
                           = DOMAIN regfile[u] \cup {r.path : r \in P}
                      /\ \A r \in P : proc'[p].paths[r.path].user = u
              /\ ResolveDumps(p)
                   => regfile'[u] = DumpPaths(proc[p].paths)]_vars
  /\ [](\A p \in Procs :
          (proc[p].op = "resolve" /\ proc[p].pc = "done"
             /\ proc[p].files # {})
            => /\ PendingOf(proc[p].user, proc[p].files) \cap pending = {}
               /\ proc[p].user \in regexists
               /\ proc[p].ok
               /\ proc[p].paths = LoadPaths(regfile[proc[p].user]))

\* delete of worker p has returned after its os.remove succeeded and its
\* dump of the registry failed
DeleteDumpFailed(p) ==
  /\ proc[p].op = "delete" /\ proc[p].pc = "done"
  /\ proc[p].fname # 0 /\ proc[p].path \notin DOMAIN proc[p].paths
  /\ proc[p].dumped = "fail"

\* C7: when delete removed the artifact and its dump of the registry then
\* failed, it returns ok=False with the inconsistent-state message, the
\* stored registry still lists the entry and the artifact is gone; no other
\* failure of delete carries that message.
C7_InconsistentReported ==
  \A p \in Procs :
    /\ DeleteDumpFailed(p)
         => /\ ~proc[p].ok /\ proc[p].msg = MsgInconsistent
            /\ proc[p].fname \notin live
            /\ proc[p].path \in DOMAIN regfile[proc[p].user]
    /\ (proc[p].op = "delete" /\ proc[p].pc = "done" /\ ~proc[p].ok
          /\ ~DeleteDumpFailed(p))
         => proc[p].msg # MsgInconsistent

\* worker p's gc passes over a registry whose lock it did not get
GcPassesOver(p) ==
  /\ proc[p].op = "gc" /\ proc[p].pc = "gcnext" /\ proc'[p].pc = "gcnext"
  /\ proc'[p].todo # proc[p].todo

\* worker p's gc tried to delete an artifact and os.remove raised: the file
\* was not removed by this step
GcDeletionFails(p) ==
  /\ proc[p].op = "gc" /\ proc[p].pc = "gcrm" /\ proc'[p].pc = "gcfile"
  /\ LET f == proc[p].paths[proc[p].key].file
     IN  ~(f \in live /\ f \notin live')

\* C11: gc returns ok=True exactly when its message is empty, and the
\* message is empty exactly when no lock acquisition and no attempted
\* artifact deletion of the sweep failed: each such failure adds to the
\* message, nothing else does, and nothing is ever taken from it.
C11_GcOkIffNoFailure ==
  [][\A p \in Procs :
       /\ (GcPassesOver(p) \/ GcDeletionFails(p)) => proc'[p].gcmsg # {}
       /\ (proc[p].op = "gc" /\ proc'[p].op = "gc")
            => /\ proc[p].gcmsg \subseteq proc'[p].gcmsg
               /\ proc'[p].gcmsg # proc[p].gcmsg
                    => (GcPassesOver(p) \/ GcDeletionFails(p))
       /\ (proc[p].op = "gc" /\ proc[p].pc = "gcnext" /\ proc'[p].pc = "done")
            => (proc'[p].ok <=> proc[p].gcmsg = {})
       /\ (proc'[p].op = "gc" /\ proc[p].op # "gc") => proc'[p].gcmsg = {}]_vars

\* a gc has returned failure with both kinds of message: a registry it could
\* not lock and an artifact it could not delete
C11_Witness ==
  \E p \in Procs :
    /\ proc[p].op = "gc" /\ proc[p].pc = "done" /\ ~proc[p].ok
    /\ \E m \in proc[p].gcmsg : m.kind = "lock"
    /\ \E m \in proc[p].gcmsg : m.kind = "remove"

\* worker p's gc goes on with the same sweep
GcGoesOn(p) == proc[p].op = "gc" /\ proc'[p].op = "gc" /\ proc[p].pc # "done"

\* the registry worker p's gc leaves behind in this step
GcLeft(p) == proc[p].todo \ proc'[p].todo

\* C12: gc is best-effort across users.  A registry whose lock it cannot get
\* is left as it is and named in the message; an entry whose artifact it
\* cannot delete stays in the registry; neither ends the sweep: registries
\* leave the list one at a time, each swept under its lock or passed over,
\* and gc returns only when the list is empty.  A sweep that has started
\* returns, whoever holds a lock.
C12_GcBestEffort ==
  /\ [][\A p \in Procs : GcGoesOn(p) =>
          /\ proc'[p].todo \subseteq proc[p].todo
          /\ Cardinality(GcLeft(p)) <= 1
          /\ proc'[p].pc = "done" => proc[p].todo = {}
          /\ GcPassesOver(p) =>
               \A u \in GcLeft(p) :
                 /\ lock[u] \notin {NoLock, p}
                 /\ regfile'[u] = regfile[u] /\ live' = live
                 /\ [kind |-> "lock", what |-> u] \in proc'[p].gcmsg
          /\ GcDeletionFails(p) =>
               /\ proc[p].key \notin proc'[p].del
               /\ proc'[p].todo = proc[p].todo /\ regfile' = regfile
          /\ (proc[p].pc \in {"gcfile", "gcwr"} /\ proc'[p].pc = "gcnext") =>
               /\ GcLeft(p) = {proc[p].cur} /\ lock[proc[p].cur] = p
               /\ \A k \in DOMAIN proc[p].paths \ proc[p].del :
                    /\ k \in DOMAIN regfile'[proc[p].cur]
                    /\ regfile'[proc[p].cur][k] = proc[p].paths[k]]_vars
  /\ \A p \in Procs :
       (proc[p].op = "gc"
          /\ proc[p].pc \in {"gcnext", "gcsweep", "gcfile", "gcrm", "gcwr"})
         ~> (proc[p].op = "gc" /\ proc[p].pc = "done")

\* a gc has returned that passed over the locked registry of one user, kept
\* the entry of /you whose artifact it could not delete, and went on to the
\* end of its list
C12_Witness ==
  \E p \in Procs :
    /\ proc[p].op = "gc" /\ proc[p].pc = "done" /\ proc[p].todo = {}
    /\ [kind |-> "lock", what |-> "alx"] \in proc[p].gcmsg
    /\ [kind |-> "remove", what |-> Digits(2)] \in proc[p].gcmsg
    /\ "/you" \in DOMAIN regfile["al"] /\ 2 \in live

\* the operations that answer a registry that could not be loaded
Readers == {"listpaths", "info", "fetch", "delete"}

\* worker p's _load_user_paths returns in this step
LoadReturns(p) ==
  proc[p].pc \in {"load", "loadrd"} /\ proc'[p].pc \notin {"load", "loadrd"}

\* what a load under the lock reads
StoredPaths(user) ==
  IF user \in regexists THEN LoadPaths(regfile[user]) ELSE EmptyMap

\* C13: _load_user_paths has three outcomes that are told apart.  It returns
\* None exactly when it did not get the user's lock; under the lock it
\* returns {} when there is no registry file and the stored mapping
\* otherwise; a lock failure never yields a mapping.  listpaths, info, fetch
\* and delete answer None with ok=False and 'User paths file could not be
\* loaded.', and give that answer in no other case.
C13_LoadOutcomes ==
  [][\A p \in Procs :
       /\ LoadReturns(p) =>
            /\ proc'[p].loaded <=> lock[proc[p].user] = p
            /\ ~proc'[p].loaded => proc'[p].paths = proc[p].paths
            /\ (proc'[p].loaded /\ proc[p].files = {})
                 => proc'[p].paths = StoredPaths(proc[p].user)
            /\ proc'[p].loaded
                 => \A k \in DOMAIN StoredPaths(proc[p].user) \ DOMAIN proc[p].newp :
                      /\ k \in DOMAIN proc'[p].paths
                      /\ proc'[p].paths[k] = StoredPaths(proc[p].user)[k]
       /\ (proc'[p].op \in Readers /\ proc[p].pc # "done" /\ proc'[p].pc = "done")
            => /\ ~proc[p].loaded
                    => /\ ~proc'[p].ok /\ proc'[p].msg = MsgNotLoaded
                       /\ proc'[p].out = <<>>
               /\ proc[p].loaded => proc'[p].msg # MsgNotLoaded]_vars

\* one of the four operations has returned its answer to a load that did not
\* get the lock, which another worker still holds
C13_NotLoadedAnswered ==
  \E p \in Procs :
    /\ proc[p].op \in Readers /\ proc[p].pc = "done" /\ ~proc[p].loaded
    /\ ~proc[p].ok /\ proc[p].msg = MsgNotLoaded
    /\ lock[proc[p].user] \notin {NoLock, p}

\* C14: a resolve_pending_paths(u) that runs while u has no pending path
\* file writes nothing, so the registry file is neither created nor changed,
\* and it returns what loading u's registry gives: the stored mapping, or the
\* empty mapping (not a failure) when u has no registry file.
C14_NoPendingNoWrite ==
  [][\A p \in Procs :
       (proc[p].op = "resolve" /\ proc[p].pc # "done"
          /\ PendingOf(proc[p].user, pending) = {})
         => /\ regfile' = regfile /\ regexists' = regexists
            /\ proc'[p].pc = "done"
                 => /\ proc'[p].ok
                    /\ proc'[p].paths = StoredPaths(proc[p].user)]_vars

\* worker p's fetch or delete is about to check its path (_ensure_file, the
\* registry resolved) and the check cannot pass: the path is no key, or the
\* entry names no file, or the file is not there
EnsureFails(p) ==
  /\ proc[p].op \in {"fetch", "delete"} /\ proc[p].pc = "post" /\ proc[p].loaded
  /\ proc'[p].pc # "post"
  /\ \/ proc[p].path \notin DOMAIN proc[p].paths
     \/ proc[p].paths[proc[p].path].file = 0
     \/ proc[p].paths[proc[p].path].file \notin live

\* worker p's fetch is about to read the bytes of a file that cannot be read
ReadFails(p) ==
  /\ proc[p].op = "fetch" /\ proc[p].pc = "fetcher" /\ ~proc[p].url
  /\ proc'[p].pc # "fetcher"
  /\ proc[p].fname \notin live

\* C15: fetch and delete whose path is no key of the resolved registry, or
\* whose entry names no file, or whose file is missing, return ok=False with
\* a message and no payload, and touch neither an artifact nor the registry;
\* a fetch whose read of the bytes fails returns ok=False with the cause in
\* its message: it does not raise.
C15_EnsureFailsCleanly ==
  [][\A p \in Procs :
       /\ EnsureFails(p) =>
            /\ proc'[p].pc = "done" /\ ~proc'[p].ok
            /\ proc'[p].msg \in {MsgNoPath, MsgNoFile, MsgNotAFile}
            /\ proc'[p].out = <<>>
            /\ live' = live /\ regfile' = regfile /\ regexists' = regexists
       /\ ReadFails(p) =>
            /\ proc'[p].pc = "done" /\ ~proc'[p].ok
            /\ proc'[p].msg = MsgReadFailed /\ proc'[p].out = <<>>
            /\ live' = live /\ regfile' = regfile /\ regexists' = regexists]_vars

\* a fetch of the bytes has returned the read error: the file was there when
\* _ensure_file looked and gone when it was opened
C15_Witness ==
  \E p \in Procs :
    /\ proc[p].op = "fetch" /\ proc[p].pc = "done" /\ ~proc[p].url
    /\ ~proc[p].ok /\ proc[p].msg = MsgReadFailed
    /\ proc[p].fname # 0 /\ proc[p].fname \notin live

\* the last character of a path
LastChar(k) == Chars(k)[Len(Chars(k))]

\* what the patterns of the requests say of a whole path: "*s*" that it has
\* an "s" somewhere, "*s" that it ends in "s"
WholeMatch(pattern, k) ==
  CASE pattern = "*s*" -> \E i \in 1 .. Len(Chars(k)) : Chars(k)[i] = "s"
    [] pattern = "*s"  -> LastChar(k) = "s"
    [] OTHER -> TRUE

\* C16: listpaths over a registry that was loaded returns success and the
\* keys of the reconciled registry in strictly ascending order, each once:
\* all of them without a pattern, and with a pattern exactly those that
\* match it as a whole ("/wish" has a match of "*s" inside and is not
\* listed).
C16_ListPathsSortedWhole ==
  \A p \in Procs :
    (proc[p].op = "listpaths" /\ proc[p].pc = "done" /\ proc[p].loaded)
      => LET out == proc[p].out
         IN  /\ proc[p].ok /\ proc[p].msg = MsgPathsListed
             /\ \A i, j \in 1 .. Len(out) : i < j => StrLess(out[i], out[j])
             /\ {out[i] : i \in 1 .. Len(out)}
                  = {k \in DOMAIN proc[p].paths :
                       WholeMatch(proc[p].sel.pattern, k)}

\* listpaths with the pattern "*s" has returned "/as" alone from a registry
\* that also holds "/wish" and "/you"
C16_Witness ==
  \E p \in Procs :
    /\ proc[p].op = "listpaths" /\ proc[p].pc = "done" /\ proc[p].ok
    /\ proc[p].sel.pattern = "*s" /\ proc[p].out = <<"/as">>
    /\ {"/wish", "/you"} \subseteq DOMAIN proc[p].paths

\* the listed paths that are keys of the registry, in the order of the list
KnownOf(userpaths, paths) ==
  SelectSeq(paths, LAMBDA k : k \in DOMAIN userpaths)

\* C17: info over a registry that was loaded returns success.  With a paths
\* selector alone it returns the entries of the listed paths that are keys of
\* the registry, in the order of the list, unknown paths left out; with a
\* pattern alone or with no selector it returns the entries of the matching
\* keys, or of all keys, in ascending order of their paths.
C17_InfoOrder ==
  \A p \in Procs :
    (proc[p].op = "info" /\ proc[p].pc = "done" /\ proc[p].loaded
       /\ (proc[p].sel.paths = <<>> \/ proc[p].sel.pattern = ""))
      => LET out == proc[p].out
             sel == proc[p].sel
             known == KnownOf(proc[p].paths, sel.paths)
         IN  /\ proc[p].ok /\ proc[p].msg = MsgInfoFound
             /\ \A i \in 1 .. Len(out) : out[i] = proc[p].paths[out[i].path]
             /\ sel.paths # <<>>
                  => /\ Len(out) = Len(known)
                     /\ \A i \in 1 .. Len(out) : out[i].path = known[i]
             /\ sel.paths = <<>>
                  => /\ \A i, j \in 1 .. Len(out) :
                          i < j => StrLess(out[i].path, out[j].path)
                     /\ {out[i].path : i \in 1 .. Len(out)}
                          = {k \in DOMAIN proc[p].paths : WholeMatch(sel.pattern, k)}

\* info with the list /you, /hey, /wish has returned the entries of /you and
\* /wish in that order from a registry without /hey
C17_Witness ==
  \E p \in Procs :
    /\ proc[p].op = "info" /\ proc[p].pc = "done" /\ proc[p].ok
    /\ proc[p].sel = [paths |-> <<"/you", "/hey", "/wish">>, pattern |-> ""]
    /\ "/hey" \notin DOMAIN proc[p].paths
    /\ Len(proc[p].out) = 2
    /\ proc[p].out[1].path = "/you" /\ proc[p].out[2].path = "/wish"

\* x is a Python float that holding may be: a finite number or +inf
IsFloat(x) == DOMAIN x = {"inf", "v"} /\ x.inf \in BOOLEAN /\ x.v \in Nat

\* the float a stored holding stands for: +inf for none and for 'inf', the
\* number for a number and for a numeric string
Stands(lit, x) ==
  /\ (lit = JAbsent \/ lit.s \in {"inf", "Infinity"}) => x = PosInf
  /\ lit.s = "42.0" => x = Fin(Hold42)
  /\ lit.s = "0.0" => x = Fin(0)

\* C18: every entry of a mapping that _load_user_paths or
\* resolve_pending_paths returns has a holding that is a float, finite or
\* +inf, whether it was stored as a number, as a numeric string or as 'inf'
\* and whether it came from the registry or from a pending path file; an
\* entry stored without a holding loads as +inf.
C18_HoldingIsFloat ==
  [][\A p \in Procs :
       /\ (LoadReturns(p) /\ proc'[p].loaded) =>
            /\ \A k \in DOMAIN proc'[p].paths : IsFloat(proc'[p].paths[k].holding)
            /\ \A k \in DOMAIN StoredPaths(proc[p].user) \ DOMAIN proc[p].newp :
                 Stands(regfile[proc[p].user][k].holding, proc'[p].paths[k].holding)
       /\ (proc[p].op = "resolve" /\ proc[p].pc # "done" /\ proc'[p].pc = "done"
             /\ proc'[p].ok) =>
            \A k \in DOMAIN proc'[p].paths : IsFloat(proc'[p].paths[k].holding)]_vars

\* resolve_pending_paths has returned a mapping with an entry stored without
\* a holding, one stored with a numeric string and one that came from a
\* pending path file whose holding is the string 'inf'
C18_Witness ==
  \E p \in Procs :
    /\ proc[p].op = "resolve" /\ proc[p].pc = "done" /\ proc[p].ok
    /\ proc[p].user = "alx"
    /\ regfile["alx"]["/as"].holding = JAbsent
    /\ proc[p].paths["/as"].holding = PosInf
    /\ proc[p].paths["/wish"].holding = Fin(Hold42)
    /\ "/hey" \in DOMAIN proc[p].newp
    /\ proc[p].paths["/hey"].holding = PosInf

\* worker p is inside the scope of `with flock(...)` for u's registry file,
\* having got the lock
InScope(p, u) ==
  \/ /\ proc[p].pc \in {"loadrd", "dumpop", "ddumpop", "dumpwr", "ddumpwr"}
     /\ proc[p].user = u
  \/ proc[p].pc \in {"gcsweep", "gcfile", "gcrm", "gcwr"} /\ proc[p].cur = u

\* C19: at most one operation is inside the locked scope of a user's
\* registry, and the lock is held by nobody who is not inside it: an
\* operation that got the lock has released it once it has left the scope,
\* by the return at its end, by a return or continue inside it, or by an
\* exception; so no operation that is over holds a lock, and a later
\* operation finds it free.
C19_LockExclusiveAndReleased ==
  \A u \in Users :
    /\ Cardinality({p \in Procs : InScope(p, u)}) <= 1
    /\ \A p \in Procs : lock[u] = p <=> InScope(p, u)
    /\ lock[u] \in Procs \cup {NoLock}
    /\ (\A p \in Procs : proc[p].pc \in {"idle", "done", "fault"})
         => lock[u] = NoLock

\* delete's dump has left its locked scope by an exception and the lock of
\* the user is free
C19_Witness ==
  \E p \in Procs :
    /\ proc[p].op = "delete" /\ proc[p].pc = "fault" /\ proc[p].dumped = "no"
    /\ proc[p].fname # 0 /\ proc[p].path \notin DOMAIN proc[p].paths
    /\ lock[proc[p].user] = NoLock

\* worker p, about to enter the locked scope of u's registry file, finds the
\* lock held by another and moves on
SoftFails(p, u) ==
  /\ \/ proc[p].pc \in {"load", "dump", "ddump"} /\ proc[p].user = u
     \/ proc[p].pc = "gcnext" /\ u \in proc[p].todo \ proc'[p].todo
  /\ lock[u] \notin {NoLock, p}
  /\ proc'[p] # proc[p]

\* C20: a user's registry file is read and written only by an operation that
\* holds the user's lock.  Every change of the file is made by the holder of
\* the lock, and every load and every pass of gc reads it as the holder.  An
\* operation that did not get the lock moves on without reading or writing
\* the file, with the failure defined for it: None from the load, False from
\* the dump, and in gc a message naming the registry, which is skipped.
C20_NoAccessWithoutLock ==
  [][\A u \in Users :
       /\ (regfile'[u] # regfile[u] \/ (u \in regexists') # (u \in regexists))
            => \E p \in Procs : lock[u] = p /\ proc'[p] # proc[p]
       /\ \A p \in Procs :
            /\ (LoadReturns(p) /\ proc'[p].loaded /\ proc[p].user = u)
                 => lock[u] = p
            /\ (proc[p].pc \in {"gcsweep", "gcfile", "gcrm", "gcwr"}
                  /\ proc[p].cur = u)
                 => lock[u] = p
            /\ SoftFails(p, u) =>
                 /\ regfile' = regfile /\ regexists' = regexists /\ live' = live
                 /\ proc'[p].paths = proc[p].paths
                 /\ proc[p].pc = "load" => ~proc'[p].loaded
                 /\ proc[p].pc \in {"dump", "ddump"} => proc'[p].dumped = "fail"
                 /\ proc[p].pc = "gcnext"
                      => /\ [kind |-> "lock", what |-> u] \in proc'[p].gcmsg
                         /\ proc'[p].pc = "gcnext"]_vars

\* delete's dump did not get the lock, which another worker holds, and
\* delete has returned its failure
C20_Witness ==
  \E p \in Procs :
    /\ proc[p].op = "delete" /\ proc[p].pc = "done" /\ proc[p].dumped = "fail"
    /\ ~proc[p].ok /\ proc[p].msg = MsgInconsistent
    /\ lock[proc[p].user] \notin {NoLock, p}

\* the operations that begin with resolve_pending_paths
Reconcilers == Readers \cup {"table", "resolve"}

\* worker p's call returns in this step
Returns(p) == proc[p].pc # "done" /\ proc'[p].pc = "done"

\* the pending record r of worker p's user has been consumed by p's call:
\* its file is gone and the registry holds, under its path, the record of
\* that path that the glob listed last (or nothing, when the call was the
\* delete of that path)
Consumed(p, r) ==
  LET u == proc[p].user
  IN  /\ r \notin pending'
      /\ \/ proc[p].op = "delete" /\ proc'[p].ok /\ proc[p].path = r.path
         \/ /\ r.path \in DOMAIN regfile'[u]
            /\ regfile'[u][r.path].file
                 \in {q.file : q \in {x \in proc[p].files : x.path = r.path}}

\* every pending record of worker p's user is among the files its glob lists
GlobSeesOwn(p) ==
  (proc[p].pc = "glob" /\ proc'[p].pc # "glob")
    => PendingOf(proc[p].user, pending) \subseteq proc'[p].files

\* C21: a pending record of user u that exists when an operation on u runs
\* is consumed by that operation: when the operation, having loaded the
\* registry, returns, the record's file is removed and the registry holds the
\* record's data.  Stated for the operations that reconcile (listpaths, info,
\* fetch, delete, table, resolve_pending_paths); gc's pass enumerates the
\* registry files without the pending path files (paths.py:408-409).
C21_NextOperationConsumes ==
  [][\A p \in Procs :
       /\ GlobSeesOwn(p)
       /\ (proc[p].op \in Reconcilers /\ Returns(p) /\ proc[p].loaded)
            => \A r \in PendingOf(proc[p].user, proc[p].files) : Consumed(p, r)]_vars

\* the entries of user u's registry that a step wrote: new keys and keys
\* whose record changed (none while the file is open and not yet written)
Written(u) ==
  IF regfile'[u] = Torn THEN {}
  ELSE {k \in DOMAIN regfile'[u] :
          k \notin DOMAIN regfile[u] \/ regfile'[u][k] # regfile[u][k]}

\* C22: an operation on user u reads, merges and removes only u's pending
\* records: no step of it removes a pending path file of another user, stores
\* another user's record in u's registry, or changes another user's registry,
\* also when u's name is a prefix of the other user's name.
C22_OnlyOwnRecords ==
  [][\A p \in Procs :
       (proc[p].op \in Reconcilers /\ proc'[p] # proc[p])
         => LET u == proc[p].user
            IN  /\ \A r \in pending \ pending' : r.user = u
                /\ \A k \in Written(u) : regfile'[u][k].user = u
                /\ \A v \in Users \ {u} :
                     /\ regfile'[v] = regfile[v]
                     /\ (v \in regexists') = (v \in regexists)]_vars

\* C23: after a resolve_pending_paths(u) that died between its dump and its
\* last os.remove, every later operation on u that resolves pending paths
\* completes; when it returns the pending path files the dead one left are
\* removed and the registry holds, for the paths of the dead one's records
\* that are listed, the records the dead one had merged; also when delete or
\* gc ran in between.
C23_RetryAfterCrash ==
  [][\A q, p \in Procs :
       (/\ proc[q].pc = "crashed"
        /\ proc[p].op \in Reconcilers /\ proc[p].user = proc[q].user
        /\ proc'[p] # proc[p])
         => LET u == proc[q].user
            IN  /\ proc'[p].pc # "fault"
                /\ Returns(p)
                     => /\ proc[q].files \cap pending' = {}
                        /\ \A r \in proc[q].files :
                             r.path \in DOMAIN regfile'[u]
                               => regfile'[u][r.path]
                                    = DumpEntry(proc[q].paths[r.path])]_vars

\* C24: a write of a user's registry file is all or nothing: whatever way a
\* step of _dump_user_paths or of gc's rewrite ends, the file holds the
\* complete mapping it held before or the complete mapping being written.
\* A write that ends at its open leaves the file as it was; a write that ends
\* after its open leaves the whole mapping it was writing.
C24_DumpAllOrNothing ==
  [][\A p \in Procs :
       /\ (proc[p].pc \in {"dumpop", "ddumpop"} /\ proc'[p].pc = "fault")
            => regfile' = regfile
       /\ (proc[p].pc \in {"dumpwr", "ddumpwr"} /\ proc'[p] # proc[p])
            => regfile'[proc[p].user] = DumpPaths(proc[p].paths)
       /\ (proc[p].pc = "gcfile" /\ proc'[p].pc = "fault")
            => regfile' = regfile
       /\ (proc[p].pc = "gcwr" /\ proc'[p] # proc[p])
            => regfile'[proc[p].cur]
                 = DictDel(proc[p].paths, proc[p].del)]_vars

\* the core operations
CoreOps == {"listpaths", "info", "fetch", "delete", "gc"}

\* C25: no core operation ends by an exception: with locks that are held,
\* registry files that are absent, paths that are unknown, artifacts that are
\* gone and pending path files removed by another call, every call of
\* listpaths, info, fetch, delete and gc ends by returning its tuple of a
\* flag and a message.
C25_NoUncaughtFault ==
  \A p \in Procs :
    proc[p].op \in CoreOps
      => /\ proc[p].pc # "fault"
         /\ proc[p].pc = "done" => proc[p].ok \in BOOLEAN

\* C26: an entry whose holding time is over is removed from its registry by
\* the next gc sweep that gets the user's lock, also when its artifact file
\* is already gone; only an artifact that cannot be removed keeps its entry.
C26_ExpiredEntrySwept ==
  [][\A p \in Procs :
       (proc[p].pc \in {"gcfile", "gcwr"} /\ proc'[p].pc = "gcnext")
         => LET stored == proc[p].paths
            IN  \A k \in DOMAIN stored :
                  (Expired(proc[p].now, stored[k]) /\ stored[k].file \notin frozen)
                    => k \notin DOMAIN regfile'[proc[p].cur]]_vars

\* the calls known to have succeeded: a worker's call that has just returned
\* success, and a worker's previous call when it was a successful delete
Succeeded ==
  LET now(p) == IF proc[p].pc = "done" /\ proc[p].ok THEN 1 ELSE 0
      before(p) == IF proc[p].prev # NoCall THEN 1 ELSE 0
  IN  now("w1") + before("w1") + now("w2") + before("w2")

\* no call is in progress and every call served so far returned success
AllWentWell ==
  /\ \A p \in Procs : proc[p].pc \in {"idle", "done"}
  /\ served = Succeeded

\* C27: an entry that delete or gc removed does not come back: when no call
\* is in progress and none has failed, every entry listed in a registry is
\* backed by its artifact file, whatever way the calls were interleaved.
C27_ListedEntriesBacked ==
  AllWentWell
    => \A u \in regexists : \A k \in DOMAIN regfile[u] : regfile[u][k].file \in live

\* the file lies in the artifact directory
UnderRoot(name) ==
  Len(name) > Len(SimsDir) /\ SubSeq(name, 1, Len(SimsDir)) = SimsDir

\* C28: GET /fetch serves only files that lie in the artifact directory,
\* whatever the 'file' argument, absolute or with ".." components; and the
\* 'file' value of the URL that fetch(..., url=True) returns for an artifact
\* is served, with the bytes of that artifact.
C28_ServesOnlyUnderRoot ==
  \A p \in Procs :
    (proc[p].op = "get" /\ proc[p].pc = "done" /\ Len(proc[p].file) = 1)
      => LET arg == proc[p].file[1]
         IN  /\ proc[p].ok
                  => UnderRoot(Resolve(Join(SimsDir, Decode(arg))))
             /\ \A f \in live :
                  arg = UrlFile(f)
                    => proc[p].ok /\ proc[p].out = <<[url |-> FALSE, file |-> f]>>

====
